---- MODULE Spec2Model ----
(***************************************************************************)
(* A model of github.com/nrdcg/goacmedns: the file-backed account storage  *)
(* (storage/file.go) and the ACME-DNS HTTP client (client.go).             *)
(*                                                                         *)
(* Strings are opaque text values.  JSON documents are modelled by their   *)
(* structure: a document is syntactically invalid, or a value (null,       *)
(* string, number, array, object with an ordered member list).             *)
(***************************************************************************)
EXTENDS Integers, Sequences, FiniteSets, TLC

VARIABLES
    file,       \* content of the file at the storage path
    st,         \* st[p]: the File value process p holds (storage/file.go:19-26)
    last,       \* the last storage call and what it returned
    lastPut,    \* lastPut[p][d]: the record of the most recent Put(d, r) on p's File
    loaded,     \* loaded[p]: the table NewFile loaded into p's File
    pc,         \* where the run of cmd/goacmedns (process p2) stands
    saved,      \* the content the last successful Save wrote (None before the first)
    file0,      \* content of the file before any storage was constructed
    dirty,      \* TRUE once a Save failed after truncating the file
    client,     \* the Client NewClient returned (client.go:66-69), None before
    sent,       \* the HTTP request the last client call handed to the transport
    call,       \* the client call blocked in httpClient.Do, None when there is none
    result,     \* the last client call and what it returned
    run         \* where a run of the usage example stands, and the credential it saved

svars == <<file, st, last, lastPut, loaded, pc, saved, file0, dirty>>
cvars == <<client, sent, call, result>>
vars == <<file, st, last, lastPut, loaded, pc, saved, file0, dirty, client, sent, call, result, run>>

-----------------------------------------------------------------------------
(* Universe of the model *)

Procs == {"p1", "p2"}

\* Domain names, in the byte order json.Marshal sorts map keys by.
DomainOrder == <<"a.example", "b.example">>

Domains == {DomainOrder[i] : i \in 1..Len(DomainOrder)}

None == [t |-> "none"]

-----------------------------------------------------------------------------
(* JSON values *)

JInvalid == [t |-> "invalid"]          \* not a JSON text (also: empty, truncated)

JNull == [t |-> "null"]

JNum == [t |-> "number"]

JStr(s) == [t |-> "string", s |-> s]

JArr(elems) == [t |-> "array", elems |-> elems]

JObj(members) == [t |-> "object", members |-> members]

Member(k, v) == [k |-> k, v |-> v]

\* The value of the last member named k of a JSON object, None when there is none
\* (encoding/json keeps the last of duplicate members).
RECURSIVE Lookup(_, _)
Lookup(members, k) ==
    IF members = <<>> THEN None
    ELSE LET n == Len(members)
         IN IF members[n].k = k THEN members[n].v
            ELSE Lookup(SubSeq(members, 1, n - 1), k)

\* the member names of a JSON object (none for any other content)
Keys(j) == IF j.t = "object" THEN {j.members[i].k : i \in 1..Len(j.members)} ELSE {}

-----------------------------------------------------------------------------
(* Account and its JSON form *)

Account(fd, sd, u, pw, su) ==
    [FullDomain |-> fd, SubDomain |-> sd, Username |-> u, Password |-> pw, ServerURL |-> su]

ZeroAccount == Account("", "", "", "", "")

\* struct field -> JSON member name, in struct order
AccountTags ==
    << <<"FullDomain", "fulldomain">>, <<"SubDomain", "subdomain">>,
       <<"Username", "username">>, <<"Password", "password">>,
       <<"ServerURL", "server_url">> >>

\* json.Marshal of an Account: every field is written, in struct order.
MarshalAccount(a) ==
    JObj([i \in 1..Len(AccountTags) |-> Member(AccountTags[i][2], JStr(a[AccountTags[i][1]]))])

\* (mutant) a decoder that rejects a record without a server_url member
UnmarshalAccountStrict(j, into) ==
    IF j.t = "null" THEN [acct |-> into, err |-> FALSE]
    ELSE IF j.t # "object" \/ Lookup(j.members, "server_url").t # "string"
    THEN [acct |-> into, err |-> TRUE]
    ELSE [acct |-> [FullDomain |-> Lookup(j.members, "fulldomain").s,
                    SubDomain |-> Lookup(j.members, "subdomain").s,
                    Username |-> Lookup(j.members, "username").s,
                    Password |-> Lookup(j.members, "password").s,
                    ServerURL |-> Lookup(j.members, "server_url").s],
          err |-> FALSE]

\* json.Unmarshal of JSON value j into the Account `into`: [acct, err].
\* null leaves the target alone; a non-object is a type error; in an object each
\* member whose name is a field's tag sets that field when it is a string, is
\* skipped when null and is a type error (field untouched) otherwise; members with
\* other names are ignored.  err is TRUE when Unmarshal returns an error.
UnmarshalAccount(j, into) ==
    IF j.t = "invalid" THEN [acct |-> into, err |-> TRUE]
    ELSE IF j.t = "null" THEN [acct |-> into, err |-> FALSE]
    ELSE IF j.t # "object" THEN [acct |-> into, err |-> TRUE]
    ELSE LET val(i) == Lookup(j.members, AccountTags[i][2])
             idx(f) == CHOOSE i \in 1..Len(AccountTags) : AccountTags[i][1] = f
         IN [acct |-> [f \in DOMAIN into |->
                          IF val(idx(f)).t = "string" THEN val(idx(f)).s ELSE into[f]],
             err  |-> \E i \in 1..Len(AccountTags) : val(i).t \notin {"none", "null", "string"}]

-----------------------------------------------------------------------------
(* The accounts map of a File: nil, or a map from domains to Accounts *)

NilMap == [nil |-> TRUE, m |-> [d \in {} |-> ZeroAccount]]

MakeMap(m) == [nil |-> FALSE, m |-> m]

EmptyMap == MakeMap([d \in {} |-> ZeroAccount])

\* the keys of S in sorted order
SortedKeys(S) == SelectSeq(DomainOrder, LAMBDA d : d \in S)

\* json.Marshal(f.accounts): null for a nil map, else an object with one member per
\* key, keys sorted.
MarshalAccounts(accts) ==
    IF accts.nil THEN JNull
    ELSE LET ks == SortedKeys(DOMAIN accts.m)
         IN JObj([i \in 1..Len(ks) |-> Member(ks[i], MarshalAccount(accts.m[ks[i]]))])

\* The map after decoding the members of an object one by one: each member
\* stores a fresh Account decoded from its value under its key, also when the
\* value is of the wrong type (the type error is recorded and decoding goes on).
RECURSIVE DecodeMembers(_, _)
DecodeMembers(members, m) ==
    IF members = <<>> THEN m
    ELSE LET h  == Head(members)
             a  == UnmarshalAccount(h.v, ZeroAccount).acct
             m2 == [d \in DOMAIN m \cup {h.k} |-> IF d = h.k THEN a ELSE m[d]]
         IN DecodeMembers(Tail(members), m2)

\* json.Unmarshal(jsonData, &f.accounts) on the map `accts`.
UnmarshalAccounts(j, accts) ==
    IF j.t = "invalid" THEN accts
    ELSE IF j.t = "null" THEN NilMap
    ELSE IF j.t # "object" THEN accts
    ELSE MakeMap(DecodeMembers(j.members, accts.m))

-----------------------------------------------------------------------------
(* File storage: storage/file.go *)

Absent == [t |-> "absent"]              \* no file at the path

Unreadable == [t |-> "unreadable"]      \* a file os.ReadFile cannot read

\* Records callers Put.
AcctA == Account("x.auth.example", "x", "userx", "pwx", "https://auth.example")

AcctB == Account("y.auth.example", "y", "usery", "pwy", "https://other.example")

PutAccounts == {AcctA, AcctB}

\* A record as an older version wrote it: no server_url member.
LegacyObj ==
    JObj(<< Member("fulldomain", JStr("y.auth.example")), Member("subdomain", JStr("y")),
            Member("username", JStr("usery")), Member("password", JStr("pwy")) >>)

\* Contents the file may have before the program first runs.
InitFiles ==
    { Absent, Unreadable, JInvalid, JNull, JArr(<<>>),
      JObj(<< Member("a.example", MarshalAccount(AcctA)) >>),
      JObj(<< Member("b.example", LegacyObj) >>),
      JObj(<< Member("a.example", JNum), Member("b.example", MarshalAccount(AcctA)) >>),
      JObj(<< Member("a.example", MarshalAccount(AcctA)), Member("b.example", LegacyObj) >>) }

ErrNil == "nil"

ErrDomainNotFound == "requested domain is not present in storage"

ErrWrite == "failed to write storage file"

Panic == "panic: assignment to entry in nil map"

NotMade == [made |-> FALSE, accounts |-> EmptyMap]

NoPuts == [d \in Domains |-> None]

Call(op, p, d, ret, err, before) ==
    [op |-> op, p |-> p, d |-> d, ret |-> ret, err |-> err, before |-> before]

\* (mutant) a construction that never loads the file
NewFileAccountsEmpty(content) == EmptyMap

\* NewFile: the accounts map after construction from the file's content.
\* f.accounts starts as an empty map; when the file can be read its content is
\* unmarshalled into the map and the error, if any, is dropped.
NewFileAccounts(content) ==
    IF content.t \in {"absent", "unreadable"} THEN EmptyMap
    ELSE UnmarshalAccounts(content, EmptyMap)

NewFile(p) ==
    /\ st' = [st EXCEPT ![p] = [made |-> TRUE, accounts |-> NewFileAccounts(file)]]
    /\ lastPut' = [lastPut EXCEPT ![p] = NoPuts]
    /\ loaded' = [loaded EXCEPT ![p] = NewFileAccounts(file).m]
    /\ last' = Call("NewFile", p, "", None, ErrNil, {})
    /\ UNCHANGED <<file, saved, file0, dirty, cvars>>

\* (mutant) an insert that keeps an entry the map already has
PutMapKeepFirst(accts, domain, acct) ==
    IF domain \in DOMAIN accts.m THEN accts
    ELSE MakeMap([d \in DOMAIN accts.m \cup {domain} |-> IF d = domain THEN acct ELSE accts.m[d]])

\* (mutant) an insert that starts the table anew
PutMapFresh(accts, domain, acct) == MakeMap([d \in {domain} |-> acct])

\* f.accounts[domain] = acct
PutMap(accts, domain, acct) ==
    MakeMap([d \in DOMAIN accts.m \cup {domain} |-> IF d = domain THEN acct ELSE accts.m[d]])

\* (mutant) a Put that also writes the table through to the file
PutWriteThrough(p, domain, acct) ==
    /\ st[p].made /\ ~st[p].accounts.nil
    /\ st' = [st EXCEPT ![p].accounts = PutMap(st[p].accounts, domain, acct)]
    /\ file' = MarshalAccounts(st'[p].accounts)
    /\ lastPut' = [lastPut EXCEPT ![p][domain] = acct]
    /\ last' = Call("Put", p, "", None, ErrNil, {})
    /\ UNCHANGED <<loaded, saved, file0, dirty, cvars>>

\* Put: an insert into the map; on a nil map the assignment panics and the
\* process dies with its File.
Put(p, domain, acct) ==
    /\ st[p].made
    /\ IF st[p].accounts.nil
       THEN /\ st' = [st EXCEPT ![p] = NotMade]
            /\ lastPut' = [lastPut EXCEPT ![p] = NoPuts]
            /\ loaded' = [loaded EXCEPT ![p] = EmptyMap.m]
            /\ last' = Call("Put", p, "", None, Panic, {})
       ELSE /\ st' = [st EXCEPT ![p].accounts = PutMap(st[p].accounts, domain, acct)]
            /\ lastPut' = [lastPut EXCEPT ![p][domain] = acct]
            /\ loaded' = loaded
            /\ last' = Call("Put", p, "", None, ErrNil, {})
    /\ UNCHANGED <<file, saved, file0, dirty, cvars>>

\* (mutant) a Fetch that returns the map's value without the presence check
FetchResultUnchecked(accts, domain) ==
    [acct |-> IF domain \in DOMAIN accts.m THEN accts.m[domain] ELSE ZeroAccount,
     err |-> ErrNil]

\* Fetch: the entry of the map, or the zero Account and ErrDomainNotFound.
FetchResult(accts, domain) ==
    IF domain \in DOMAIN accts.m
    THEN [acct |-> accts.m[domain], err |-> ErrNil]
    ELSE [acct |-> ZeroAccount, err |-> ErrDomainNotFound]

Fetch(p, domain) ==
    /\ st[p].made
    /\ last' = Call("Fetch", p, domain, FetchResult(st[p].accounts, domain).acct,
                    FetchResult(st[p].accounts, domain).err, {})
    /\ UNCHANGED <<file, st, lastPut, loaded, saved, file0, dirty, cvars>>

\* FetchAll: the map itself.
FetchAllResult(accts) == accts

FetchAll(p) ==
    /\ st[p].made
    /\ last' = Call("FetchAll", p, "", FetchAllResult(st[p].accounts), ErrNil, {})
    /\ UNCHANGED <<file, st, lastPut, loaded, saved, file0, dirty, cvars>>

\* (mutant) a write that keeps the domains the file holds beside the table's
SaveContentMerged(accts) ==
    IF accts.nil THEN JNull
    ELSE LET old == NewFileAccounts(file).m
         IN MarshalAccounts(MakeMap([d \in DOMAIN old \cup DOMAIN accts.m |->
                                       IF d \in DOMAIN accts.m THEN accts.m[d] ELSE old[d]]))

\* What os.WriteFile leaves at the path: the data when it succeeds; when it fails
\* either the old content (the open failed) or a truncated, partly written file.
SaveContent(accts) == MarshalAccounts(accts)

\* (mutant) a Save that merges the table into what the file already holds
SaveOkMerge(p) ==
    /\ st[p].made
    /\ file' = LET old == NewFileAccounts(file).m
                   new == st[p].accounts.m
               IN MarshalAccounts(MakeMap([d \in DOMAIN old \cup DOMAIN new |->
                                             IF d \in DOMAIN new THEN new[d] ELSE old[d]]))
    /\ saved' = file'
    /\ dirty' = FALSE
    /\ last' = Call("Save", p, "", None, ErrNil, Keys(file))
    /\ UNCHANGED <<st, lastPut, loaded, file0, cvars>>

SaveOk(p) ==
    /\ st[p].made
    /\ file' = SaveContent(st[p].accounts)
    /\ saved' = file'
    /\ dirty' = FALSE
    /\ last' = Call("Save", p, "", None, ErrNil, Keys(file))
    /\ UNCHANGED <<st, lastPut, loaded, file0, cvars>>

SaveFailOpen(p) ==
    /\ st[p].made
    /\ last' = Call("Save", p, "", None, ErrWrite, Keys(file))
    /\ UNCHANGED <<file, st, lastPut, loaded, saved, file0, dirty, cvars>>

SaveFailWrite(p) ==
    /\ st[p].made
    /\ file' = JInvalid
    /\ dirty' = TRUE
    /\ last' = Call("Save", p, "", None, ErrWrite, Keys(file))
    /\ UNCHANGED <<st, lastPut, loaded, saved, file0, cvars>>

Save(p) == SaveOk(p) \/ SaveFailOpen(p) \/ SaveFailWrite(p)

InitStorage ==
    /\ file \in InitFiles
    /\ file0 = file
    /\ st = [p \in Procs |-> NotMade]
    /\ lastPut = [p \in Procs |-> NoPuts]
    /\ loaded = [p \in Procs |-> EmptyMap.m]
    /\ pc = "start"
    /\ last = Call("", "", "", None, ErrNil, {})
    /\ saved = None
    /\ dirty = FALSE

InitClient ==
    /\ client = None
    /\ sent = None
    /\ call = None
    /\ result = None

\* No run of the usage example has begun.
NoRun == [at |-> "start", cred |-> None]

Init == InitStorage /\ InitClient /\ run = NoRun

-----------------------------------------------------------------------------
(* Two processes share the path: p1 calls the storage in any order; p2 is a run
   of cmd/goacmedns, which constructs the storage, Puts the account it
   registered for its -domain and Saves. *)

Lib == "p1"

Cmd == "p2"

CmdDomain == "b.example"

CmdNewFile ==
    /\ pc \in {"start", "done"}
    /\ NewFile(Cmd)
    /\ pc' = "constructed"
    /\ UNCHANGED run

CmdPut ==
    /\ pc = "constructed"
    /\ Put(Cmd, CmdDomain, AcctB)
    /\ pc' = IF st[Cmd].accounts.nil THEN "done" ELSE "put"
    /\ UNCHANGED run

CmdSave ==
    /\ pc = "put"
    /\ Save(Cmd)
    /\ pc' = "done"
    /\ UNCHANGED run

\* One process using one storage.
LibNewFile == NewFile(Lib) /\ UNCHANGED <<pc, run>>

LibPut == \E d \in Domains, a \in PutAccounts : Put(Lib, d, a) /\ UNCHANGED <<pc, run>>

LibFetch == \E d \in Domains : Fetch(Lib, d) /\ UNCHANGED <<pc, run>>

LibFetchAll == FetchAll(Lib) /\ UNCHANGED <<pc, run>>

LibSaveOk == SaveOk(Lib) /\ UNCHANGED <<pc, run>>

LibSaveFailOpen == SaveFailOpen(Lib) /\ UNCHANGED <<pc, run>>

LibSaveFailWrite == SaveFailWrite(Lib) /\ UNCHANGED <<pc, run>>

Next ==
    \/ LibNewFile
    \/ LibPut
    \/ LibFetch
    \/ LibFetchAll
    \/ LibSaveOk
    \/ LibSaveFailOpen
    \/ LibSaveFailWrite

Spec == Init /\ [][Next]_vars

\* The same with a run of cmd/goacmedns on the same path beside it.
SharedFiles == {Absent, JNull, JObj(<< Member("a.example", MarshalAccount(AcctA)) >>)}

InitShared == Init /\ file \in SharedFiles

NextShared ==
    \/ LibNewFile
    \/ LibPut
    \/ LibFetch
    \/ LibFetchAll
    \/ LibSaveOk
    \/ LibSaveFailOpen
    \/ LibSaveFailWrite
    \/ CmdNewFile
    \/ CmdPut
    \/ CmdSave

SpecShared == InitShared /\ [][NextShared]_vars

-----------------------------------------------------------------------------
(* Claims about the file storage *)

Made(p) == st[p].made

Table(p) == st[p].accounts.m

\* the table a storage constructed now from the path would hold
Reloaded == NewFileAccounts(file).m

\* C1: Fetch(d) returns, with no error, the record of the most recent Put(d, r)
\* on the storage, whatever Puts on other domains or Saves came in between; a
\* Put is visible to Fetch without a Save.
C1_FetchReturnsLastPut ==
    /\ \A p \in Procs, d \in Domains :
          (Made(p) /\ lastPut[p][d] # None) =>
              FetchResult(st[p].accounts, d) = [acct |-> lastPut[p][d], err |-> ErrNil]
    /\ (last.op = "Fetch" /\ lastPut[last.p][last.d] # None) =>
          (last.ret = lastPut[last.p][last.d] /\ last.err = ErrNil)

\* A Fetch returned the record of a second Put on a domain whose first Put was
\* saved: the file still holds the first record.
C1_Witness ==
    /\ last.op = "Fetch" /\ last.err = ErrNil
    /\ file0 = Absent
    /\ lastPut[last.p][last.d] = AcctB /\ last.ret = AcctB
    /\ file = saved
    /\ last.d \in DOMAIN Reloaded /\ Reloaded[last.d] = AcctA

\* C2: after a successful Save the file holds exactly the in-memory table: a
\* storage constructed from the path has the same domains with the same
\* records, and a domain of the previous file content that is not in the saved
\* table is gone.
C2_SaveRoundTrip ==
    (last.op = "Save" /\ last.err = ErrNil) =>
        /\ DOMAIN Reloaded = DOMAIN Table(last.p)
        /\ \A d \in DOMAIN Table(last.p) : Reloaded[d] = Table(last.p)[d]
        /\ \A d \in last.before \ DOMAIN Table(last.p) : d \notin DOMAIN Reloaded

\* A successful Save of a non-empty table over a file that held another domain.
C2_Witness ==
    /\ last.op = "Save" /\ last.err = ErrNil
    /\ Table(last.p) # <<>>
    /\ last.before \ DOMAIN Table(last.p) # {}

C3_Content == file = file0 \/ (saved # None /\ file = saved) \/ (dirty /\ file = JInvalid)

C3_Frame == last'.op \in {"Put", "Fetch", "FetchAll"} => file' = file

NoEntry(p, d) == d \notin DOMAIN loaded[p] /\ lastPut[p][d] = None

C4_Result ==
    /\ \A p \in Procs, d \in Domains :
          Made(p) =>
              LET r == FetchResult(st[p].accounts, d)
              IN /\ r.err \in {ErrNil, ErrDomainNotFound}
                 /\ NoEntry(p, d) <=> r.err = ErrDomainNotFound
                 /\ NoEntry(p, d) => r.acct = ZeroAccount
    /\ last.op = "Fetch" =>
          /\ last.err \in {ErrNil, ErrDomainNotFound}
          /\ NoEntry(last.p, last.d) <=> last.err = ErrDomainNotFound
          /\ NoEntry(last.p, last.d) => last.ret = ZeroAccount

C4_Frame == last'.op = "Fetch" => st' = st

\* C4: Fetch(d) on a storage with no entry for d (neither loaded at construction
\* nor Put) returns the zero Account and ErrDomainNotFound, and no other error;
\* it returns ErrDomainNotFound only then; it leaves the table unchanged.
C4_FetchNotFound == [](C4_Result) /\ [][C4_Frame]_vars

\* A Fetch of an absent domain on a storage that holds another domain.
C4_Witness ==
    /\ last.op = "Fetch" /\ last.err = ErrDomainNotFound
    /\ Table(last.p) # <<>>

-----------------------------------------------------------------------------
(* HTTP client: client.go *)

\* Longest allow-from list the model passes to RegisterAccount.
MaxAllowFrom == 2

Networks == {"192.168.1.0/24", "10.0.0.0/8"}

AllowFromLists == UNION {[1..n -> Networks] : n \in 0..MaxAllowFrom}

\* Base URLs handed to NewClient; url.Parse rejects the last.
BaseURLs == {"https://auth.example", "https://other.example", "://bad"}

Parses(u) == u # "://bad"

URLString(u) == u.str

JoinPath(u, elem) == [str |-> u.str, path |-> elem]

\* Response bodies as byte strings, and the JSON text each is.
RawBodies ==
    { "", "<html>", "null", "[]",
      "{\"error\":\"bad\"}",
      "{\"fulldomain\":\"x.auth.example\",\"subdomain\":\"x\",\"username\":\"userx\",\"password\":\"pwx\"}",
      "{\"fulldomain\":\"x.auth.example\",\"subdomain\":\"x\",\"username\":\"userx\",\"password\":\"pwx\",\"server_url\":\"https://evil.example\"}",
      "{\"fulldomain\":\"x.auth.example\",\"username\":5}" }

ParseJSON(raw) ==
    CASE raw = "null" -> JNull
      [] raw = "[]" -> JArr(<<>>)
      [] raw = "{\"error\":\"bad\"}" -> JObj(<< Member("error", JStr("bad")) >>)
      [] raw = "{\"fulldomain\":\"x.auth.example\",\"subdomain\":\"x\",\"username\":\"userx\",\"password\":\"pwx\"}" ->
            JObj(<< Member("fulldomain", JStr("x.auth.example")), Member("subdomain", JStr("x")),
                    Member("username", JStr("userx")), Member("password", JStr("pwx")) >>)
      [] raw = "{\"fulldomain\":\"x.auth.example\",\"subdomain\":\"x\",\"username\":\"userx\",\"password\":\"pwx\",\"server_url\":\"https://evil.example\"}" ->
            JObj(<< Member("fulldomain", JStr("x.auth.example")), Member("subdomain", JStr("x")),
                    Member("username", JStr("userx")), Member("password", JStr("pwx")),
                    Member("server_url", JStr("https://evil.example")) >>)
      [] raw = "{\"fulldomain\":\"x.auth.example\",\"username\":5}" ->
            JObj(<< Member("fulldomain", JStr("x.auth.example")), Member("username", JNum) >>)
      [] OTHER -> JInvalid

Statuses == {101, 200, 201, 299, 300, 400, 500}

\* Bodies whose read is cut short by an error.
CutBodies == {"", "<html>"}

\* What a call meets: a context http.NewRequestWithContext accepts or rejects,
\* then a transport failure in httpClient.Do or a response.  body is what io.ReadAll returns
\* for resp.Body and readErr whether it returns an error with it.
Response(status, body, readErr) ==
    [t |-> "response", status |-> status, body |-> body, readErr |-> readErr]

BadContext == [t |-> "nil context"]

TransportFailure == [t |-> "transport failure"]

GoodContext == [t |-> "context"]

Contexts == {GoodContext, BadContext}

Outcomes ==
    {TransportFailure}
    \cup {Response(s, b, FALSE) : s \in Statuses, b \in RawBodies}
    \cup {Response(s, b, TRUE) : s \in Statuses, b \in CutBodies}

\* errors
NoErr == [kind |-> "nil"]

Leaf(what) == [kind |-> "error", msg |-> what]

Wrap(msg, inner) == [kind |-> "wrapped", msg |-> msg, inner |-> inner]

newClientError(msg, respCode, respBody) ==
    [kind |-> "ClientError", Message |-> msg, HTTPStatus |-> respCode, Body |-> respBody]

Unwrap(err) == IF err.kind = "wrapped" THEN err.inner ELSE NoErr

\* errors.As(err, &cErr) for a *ClientError: the first ClientError in the chain
RECURSIVE AsClientError(_)
AsClientError(err) ==
    IF err.kind = "ClientError" THEN err
    ELSE IF err.kind = "wrapped" THEN AsClientError(err.inner)
    ELSE None

\* newRequest: the POST request for an endpoint, extra headers and a payload.
\* Every payload the callers pass is a non-nil interface value (RegisterAccount
\* passes a *Register even when it is a nil pointer), so the body is always the
\* encoding of the payload and Content-Type is always set.
Encode(payload) ==
    CASE payload.t = "nil *Register" -> JNull
      [] payload.t = "Register" ->
            JObj(<< Member("allowfrom",
                           IF payload.AllowFrom = <<>> THEN JNull
                           ELSE JArr([i \in 1..Len(payload.AllowFrom) |-> JStr(payload.AllowFrom[i])])) >>)
      [] payload.t = "Update" ->
            JObj(<< Member("subdomain", JStr(payload.SubDomain)), Member("txt", JStr(payload.Txt)) >>)

UserAgent == "goacmedns (GOOS; GOARCH)"

newRequest(endpoint, headers, payload) ==
    [method |-> "POST", url |-> endpoint, body |-> Encode(payload),
     header |-> [h \in {"Accept", "User-Agent", "Content-Type"} \cup DOMAIN headers |->
                    IF h = "Content-Type" THEN "application/json"
                    ELSE IF h \in DOMAIN headers THEN headers[h]
                    ELSE IF h = "Accept" THEN "application/json"
                    ELSE UserAgent]]

\* (mutant) only 200 counts as success
IsSuccessOnly200(status) == status = 200

\* (mutant) only 4xx and 5xx count as failure
IsSuccessBelow400(status) == status < 400

\* resp.StatusCode/100 == 2
IsSuccess(status) == status \div 100 = 2

\* (mutant) the decode failure reported under the same message as a bad status
DecodeErrorSameMessage(status, raw) == newClientError("response error", status, raw)

\* the error for a 2xx body json.Unmarshal rejects
DecodeError(status, raw) == newClientError("failed to unmarshal response", status, raw)

\* Client.do: [err, acct] for an outcome of httpClient.Do; wantResult is
\* result != nil, acct the Account the body was decoded into.
Do(outcome, wantResult) ==
    IF outcome.t = "transport failure"
    THEN [err |-> Wrap("failed to do req", Leaf("transport")), acct |-> ZeroAccount]
    ELSE IF ~IsSuccess(outcome.status)
    THEN [err |-> newClientError("response error", outcome.status, outcome.body),
          acct |-> ZeroAccount]
    ELSE IF ~wantResult
    THEN [err |-> NoErr, acct |-> ZeroAccount]
    ELSE IF outcome.readErr
    THEN [err |-> Wrap("failed to read body", Leaf("read")), acct |-> ZeroAccount]
    ELSE LET dec == UnmarshalAccount(ParseJSON(outcome.body), ZeroAccount)
         IN IF dec.err
            THEN [err |-> DecodeError(outcome.status, outcome.body), acct |-> dec.acct]
            ELSE [err |-> NoErr, acct |-> dec.acct]

NoHeaders == [h \in {} |-> ""]

CallResult(op, allowFrom, account, value, outcome, acct, err) ==
    [op |-> op, allowFrom |-> allowFrom, account |-> account, value |-> value,
     outcome |-> outcome, acct |-> acct, err |-> err]

\* NewClient: the base URL is parsed once; a URL url.Parse rejects gives an error
\* and no Client.
NewClient(baseURL) ==
    /\ call = None
    /\ IF Parses(baseURL)
       THEN /\ client' = [baseURL |-> [str |-> baseURL, path |-> ""]]
            /\ result' = CallResult("NewClient", <<>>, ZeroAccount, "", None, ZeroAccount, NoErr)
       ELSE /\ client' = client
            /\ result' = CallResult("NewClient", <<>>, ZeroAccount, "", None, ZeroAccount,
                                    Wrap("could not parse base URL", Leaf("parse")))
    /\ sent' = None
    /\ UNCHANGED <<call, svars>>

\* (mutant) a Register value is built for every list, the empty one too
RegisterPayloadAlways(allowFrom) == [t |-> "Register", AllowFrom |-> allowFrom]

\* the payload RegisterAccount passes: a nil *Register unless the list has elements
RegisterPayload(allowFrom) ==
    IF Len(allowFrom) > 0 THEN [t |-> "Register", AllowFrom |-> allowFrom]
    ELSE [t |-> "nil *Register"]

\* (mutant) the base URL fills ServerURL only when the response left it empty
StampIfEmpty(acct, baseURL) ==
    IF acct.ServerURL = "" THEN [acct EXCEPT !.ServerURL = URLString(baseURL)] ELSE acct

\* acct.ServerURL = c.baseURL.String()
Stamp(acct, baseURL) == [acct EXCEPT !.ServerURL = URLString(baseURL)]

\* The request-building error of both calls.
RequestError == Wrap("unable to create request", Leaf("nil context"))

\* RegisterAccount up to c.do: the request, None when it cannot be built.
RegisterRequest(c, allowFrom, ctx) ==
    IF ctx = BadContext THEN None
    ELSE newRequest(JoinPath(c.baseURL, "register"), NoHeaders, RegisterPayload(allowFrom))

\* RegisterAccount from c.do on: [acct, err]
RegisterResult(c, outcome) ==
    LET r == Do(outcome, TRUE)
    IN IF r.err # NoErr
       THEN [acct |-> ZeroAccount, err |-> Wrap("failed to register account", r.err)]
       ELSE [acct |-> Stamp(r.acct, c.baseURL), err |-> NoErr]

\* A call runs in two steps: up to httpClient.Do, where it blocks with its
\* request handed to the transport, and from the transport's answer to its return.
\* A call whose request cannot be built returns in the first step.
RegisterAccount(allowFrom, ctx) ==
    /\ client # None /\ call = None
    /\ LET req == RegisterRequest(client, allowFrom, ctx)
       IN /\ sent' = req
          /\ IF req = None
             THEN /\ call' = None
                  /\ result' = CallResult("RegisterAccount", allowFrom, ZeroAccount, "", ctx,
                                          ZeroAccount, RequestError)
             ELSE /\ call' = [op |-> "RegisterAccount", allowFrom |-> allowFrom]
                  /\ result' = None
    /\ UNCHANGED <<client, svars>>

RegisterAccountReturn(outcome) ==
    /\ call # None /\ call.op = "RegisterAccount"
    /\ LET r == RegisterResult(client, outcome)
       IN result' = CallResult("RegisterAccount", call.allowFrom, ZeroAccount, "", outcome,
                               r.acct, r.err)
    /\ call' = None
    /\ UNCHANGED <<client, sent, svars>>

\* (mutant) the two credentials under each other's header
UpdateHeadersSwapped(account) ==
    [h \in {"X-Api-User", "X-Api-Key"} |->
        IF h = "X-Api-User" THEN account.Password ELSE account.Username]

UpdateHeaders(account) ==
    [h \in {"X-Api-User", "X-Api-Key"} |->
        IF h = "X-Api-User" THEN account.Username ELSE account.Password]

UpdatePayload(account, value) == [t |-> "Update", SubDomain |-> account.SubDomain, Txt |-> value]

\* (mutant) an update call that decodes the response body like a register call
UpdateDoDecoding(outcome) == Do(outcome, TRUE)

\* c.do(req, nil)
UpdateDo(outcome) == Do(outcome, FALSE)

\* UpdateTXTRecord up to c.do: the request, None when it cannot be built.
UpdateRequest(c, account, value, ctx) ==
    IF ctx = BadContext THEN None
    ELSE newRequest(JoinPath(c.baseURL, "update"), UpdateHeaders(account),
                    UpdatePayload(account, value))

\* UpdateTXTRecord from c.do on: the error returned
UpdateResult(outcome) ==
    LET r == UpdateDo(outcome)
    IN IF r.err # NoErr THEN Wrap("failed to update TXT record", r.err) ELSE NoErr

UpdateTXTRecord(account, value, ctx) ==
    /\ client # None /\ call = None
    /\ LET req == UpdateRequest(client, account, value, ctx)
       IN /\ sent' = req
          /\ IF req = None
             THEN /\ call' = None
                  /\ result' = CallResult("UpdateTXTRecord", <<>>, account, value, ctx,
                                          ZeroAccount, RequestError)
             ELSE /\ call' = [op |-> "UpdateTXTRecord", account |-> account, value |-> value]
                  /\ result' = None
    /\ UNCHANGED <<client, svars>>

UpdateTXTRecordReturn(outcome) ==
    /\ call # None /\ call.op = "UpdateTXTRecord"
    /\ result' = CallResult("UpdateTXTRecord", <<>>, call.account, call.value, outcome,
                            ZeroAccount, UpdateResult(outcome))
    /\ call' = None
    /\ UNCHANGED <<client, sent, svars>>

\* Accounts and TXT values callers pass to UpdateTXTRecord.
AcctMoved == [AcctA EXCEPT !.ServerURL = "", !.FullDomain = "moved.example"]

UpdateAccounts == {AcctA, AcctB, AcctMoved}

TxtValues == {"", "token"}

InitIdle == Init /\ file = Absent

NextClient ==
    \/ \E u \in BaseURLs : NewClient(u) /\ UNCHANGED run
    \/ \E l \in AllowFromLists, c \in Contexts : RegisterAccount(l, c) /\ UNCHANGED run
    \/ \E o \in Outcomes : RegisterAccountReturn(o) /\ UNCHANGED run
    \/ \E a \in UpdateAccounts, v \in TxtValues, c \in Contexts :
          UpdateTXTRecord(a, v, c) /\ UNCHANGED run
    \/ \E o \in Outcomes : UpdateTXTRecordReturn(o) /\ UNCHANGED run

SpecClient == InitIdle /\ [][NextClient]_vars

-----------------------------------------------------------------------------
(* Claims about the HTTP client *)

Registered == result # None /\ result.op = "RegisterAccount"

Updated == result # None /\ result.op = "UpdateTXTRecord"

Answered == result # None /\ result.outcome.t = "response"

\* The request of a register call and of an update call, from the moment it is
\* handed to the transport.
RegisterSent ==
    \/ call # None /\ call.op = "RegisterAccount"
    \/ call = None /\ Registered /\ sent # None

UpdateSent ==
    \/ call # None /\ call.op = "UpdateTXTRecord"
    \/ call = None /\ Updated /\ sent # None

CallInput == IF call # None THEN call ELSE result

\* C5: a RegisterAccount or UpdateTXTRecord call answered with a status outside
\* 200..299 returns an error that wraps a ClientError with Message "response
\* error", HTTPStatus the response status and Body the response body;
\* RegisterAccount returns the zero Account with it.
C5_NonSuccessIsClientError ==
    (Answered /\ result.outcome.status \notin 200..299) =>
        LET remote == [kind |-> "ClientError", Message |-> "response error",
                       HTTPStatus |-> result.outcome.status, Body |-> result.outcome.body]
        IN /\ result.err.kind = "wrapped"
           /\ Unwrap(result.err) = remote
           /\ AsClientError(result.err) = remote
           /\ Registered => result.acct = ZeroAccount

\* A register call answered 101 with a body that would decode to an account.
C5_Witness ==
    /\ Registered /\ Answered
    /\ result.outcome.status = 101
    /\ ParseJSON(result.outcome.body).t = "object"
    /\ AsClientError(result.err) # None
    /\ AsClientError(result.err).HTTPStatus = 101
    /\ AsClientError(result.err).Body = result.outcome.body
    /\ result.acct = ZeroAccount

\* the string value of member name of a JSON text, "" when it has none
C6_Field(j, name) ==
    IF j.t = "object" /\ Lookup(j.members, name).t = "string"
    THEN Lookup(j.members, name).s ELSE ""

\* C6: an Account that RegisterAccount returns without error has ServerURL equal
\* to the client's base URL, whatever server_url the response carried, and its
\* other four fields are the ones decoded from the response body.
C6_ServerURLStamped ==
    (Registered /\ result.err = NoErr) =>
        LET j == ParseJSON(result.outcome.body)
        IN /\ Answered
           /\ result.acct.ServerURL = client.baseURL.str
           /\ result.acct.FullDomain = C6_Field(j, "fulldomain")
           /\ result.acct.SubDomain = C6_Field(j, "subdomain")
           /\ result.acct.Username = C6_Field(j, "username")
           /\ result.acct.Password = C6_Field(j, "password")

\* A registration whose response carried a server_url of its own.
C6_Witness ==
    /\ Registered /\ result.err = NoErr
    /\ C6_Field(ParseJSON(result.outcome.body), "server_url") = "https://evil.example"
    /\ result.acct.ServerURL = "https://other.example"
    /\ result.acct.Username = "userx"

\* C7: the request RegisterAccount sends has no allowfrom member in its body
\* when the allow-from list is empty (or nil), and otherwise has a JSON object as
\* body whose allowfrom is the array of the list's elements in the list's order.
C7_AllowFromBody ==
    RegisterSent =>
        LET l == CallInput.allowFrom
        IN IF Len(l) = 0
           THEN "allowfrom" \notin Keys(sent.body)
           ELSE /\ sent.body.t = "object"
                /\ Lookup(sent.body.members, "allowfrom") =
                       [t |-> "array", elems |-> [i \in 1..Len(l) |-> [t |-> "string", s |-> l[i]]]]

\* A request carrying two different networks, in the order they were passed.
C7_Witness ==
    /\ RegisterSent
    /\ CallInput.allowFrom = <<"192.168.1.0/24", "10.0.0.0/8">>
    /\ Lookup(sent.body.members, "allowfrom").elems[1].s = "192.168.1.0/24"
    /\ Lookup(sent.body.members, "allowfrom").elems[2].s = "10.0.0.0/8"

\* C8: the request UpdateTXTRecord(account, value) sends is fixed by the client,
\* account.Username, account.Password, account.SubDomain and value alone: header
\* X-Api-User is the Username and X-Api-Key the Password, the body is the JSON
\* object with subdomain the SubDomain and txt the value, and the URL is the
\* client's; account.ServerURL and account.FullDomain appear nowhere in it.
C8_UpdateRequest ==
    UpdateSent =>
        LET a == CallInput.account
            v == CallInput.value
        IN /\ sent.header["X-Api-User"] = a.Username
           /\ sent.header["X-Api-Key"] = a.Password
           /\ sent.body.t = "object"
           /\ Keys(sent.body) = {"subdomain", "txt"}
           /\ Lookup(sent.body.members, "subdomain") = [t |-> "string", s |-> a.SubDomain]
           /\ Lookup(sent.body.members, "txt") = [t |-> "string", s |-> v]
           /\ Len(sent.body.members) = 2
           /\ sent.method = "POST"
           /\ sent.url = [str |-> client.baseURL.str, path |-> "update"]
           /\ DOMAIN sent.header = {"Accept", "Content-Type", "User-Agent", "X-Api-User", "X-Api-Key"}
           /\ sent.header["Accept"] = "application/json"
           /\ sent.header["Content-Type"] = "application/json"
           /\ sent.header["User-Agent"] = UserAgent

\* An update for an account registered at another server than the client's.
C8_Witness ==
    /\ UpdateSent
    /\ CallInput.account.ServerURL = "https://other.example"
    /\ client.baseURL.str = "https://auth.example"
    /\ sent.url.str = "https://auth.example"
    /\ sent.header["X-Api-User"] = "usery"
    /\ sent.header["X-Api-Key"] = "pwy"
    /\ CallInput.value = "token"

\* C9: an UpdateTXTRecord call that the server answered returns nil exactly
\* when the status is in 200..299, whatever the body is (empty, not JSON, cut
\* short while being read).
C9_UpdateSuccessIsStatus ==
    (Updated /\ Answered) =>
        (result.err = NoErr <=> result.outcome.status \in 200..299)

\* An update answered 201 with a body that is not JSON and returning nil.
C9_Witness ==
    /\ Updated /\ Answered
    /\ result.outcome.status = 201
    /\ result.outcome.body = "<html>"
    /\ result.err = NoErr

\* C10 as stated: RegisterAccount returns an error holding a ClientError only
\* when the response status is outside 200..299.
C10_Original ==
    (Registered /\ AsClientError(result.err) # None) =>
        (Answered /\ result.outcome.status \notin 200..299)

\* the body of a response decodes into an Account
C10_Decodes(body) ==
    LET j == ParseJSON(body)
    IN \/ j.t = "null"
       \/ /\ j.t = "object"
          /\ \A n \in {"fulldomain", "subdomain", "username", "password", "server_url"} :
                Lookup(j.members, n).t \in {"none", "null", "string"}

\* C10: a call that fails in the transport returns an error holding no
\* ClientError; a call answered outside 200..299 returns one holding a ClientError
\* with Message "response error" and that status; a RegisterAccount call answered
\* in 200..299 fails exactly when the body cannot be read or decoded: with no
\* ClientError when it cannot be read, and with a ClientError with Message
\* "failed to unmarshal response", the 2xx status and the body when it cannot be
\* decoded.
C10_FailureKinds ==
    (result # None /\ result.op \in {"RegisterAccount", "UpdateTXTRecord"}) =>
        LET c == AsClientError(result.err)
            o == result.outcome
        IN /\ o \in {BadContext, TransportFailure} =>
                 result.err # NoErr /\ c = None
           /\ (Answered /\ o.status \notin 200..299) =>
                 c # None /\ c.Message = "response error" /\ c.HTTPStatus = o.status
           /\ (Answered /\ o.status \in 200..299 /\ Registered) =>
                 /\ o.readErr => result.err # NoErr /\ c = None
                 /\ (~o.readErr /\ ~C10_Decodes(o.body)) =>
                        c = [kind |-> "ClientError", Message |-> "failed to unmarshal response",
                             HTTPStatus |-> o.status, Body |-> o.body]
                 /\ (~o.readErr /\ C10_Decodes(o.body)) => result.err = NoErr

\* A registration answered 200 with a body that is not JSON.
C10_Witness ==
    /\ Registered /\ Answered
    /\ result.outcome.status = 200
    /\ result.outcome.body = "<html>"
    /\ ~result.outcome.readErr
    /\ AsClientError(result.err) # None
    /\ AsClientError(result.err).Message = "failed to unmarshal response"
    /\ AsClientError(result.err).HTTPStatus = 200

-----------------------------------------------------------------------------
(* Claims about construction from the file *)

\* a JSON value that decodes into an Account without error
DecodableRecord(v) ==
    /\ v.t = "object"
    /\ \A n \in {"fulldomain", "subdomain", "username", "password", "server_url"} :
          Lookup(v.members, n).t \in {"none", "null", "string"}

\* a file content that is a JSON object of domain to record
DecodableTable(content) ==
    /\ content.t = "object"
    /\ \A i \in 1..Len(content.members) : DecodableRecord(content.members[i].v)

\* C11 as stated: NewFile returns no error, and when the file is absent,
\* unreadable or not decodable as a JSON object of domain to record, the storage
\* it returns has an empty table.
C11_Original ==
    (last.op = "NewFile" /\ ~DecodableTable(file)) =>
        /\ last.err = ErrNil
        /\ Made(last.p)
        /\ Table(last.p) = <<>>

\* the Account a JSON object decodes into: each field the string its member
\* holds, empty when the member is missing
RecordOf(v) ==
    [FullDomain |-> C6_Field(v, "fulldomain"), SubDomain |-> C6_Field(v, "subdomain"),
     Username |-> C6_Field(v, "username"), Password |-> C6_Field(v, "password"),
     ServerURL |-> C6_Field(v, "server_url")]

\* C12: NewFile on a file that is a JSON object loads every record of it under
\* its domain, none dropped: a record without server_url gets ServerURL "" and
\* its four other fields as stored, a record with server_url keeps it.
C12_LegacyRecordsLoad ==
    (last.op = "NewFile" /\ file.t = "object") =>
        /\ DOMAIN Table(last.p) = Keys(file)
        /\ \A i \in 1..Len(file.members) :
              LET k == file.members[i].k
                  v == file.members[i].v
              IN (v.t = "object" /\ \A j \in (i + 1)..Len(file.members) : file.members[j].k # k) =>
                     /\ Table(last.p)[k] = RecordOf(v)
                     /\ Lookup(v.members, "server_url") = None => Table(last.p)[k].ServerURL = ""

\* A storage constructed from a file with a legacy record beside a current one.
C12_Witness ==
    /\ last.op = "NewFile"
    /\ Keys(file) = {"a.example", "b.example"}
    /\ Lookup(Lookup(file.members, "b.example").members, "server_url") = None
    /\ Lookup(Lookup(file.members, "a.example").members, "server_url").t = "string"
    /\ Table(last.p)["b.example"] = Account("y.auth.example", "y", "usery", "pwy", "")
    /\ Table(last.p)["a.example"] = AcctA

\* C13 as stated: the table of a constructed storage is an initialised map,
\* whatever the file held, and a Put on it returns no error.
C13_Original ==
    /\ \A p \in Procs : Made(p) => ~st[p].accounts.nil
    /\ last.op = "Put" => last.err = ErrNil

-----------------------------------------------------------------------------
(* A caller that writes to what Fetch and FetchAll returned.  FetchAll returns
   f.accounts itself, so an assignment to or a delete from the returned map is an
   assignment to or a delete from the storage's map; Fetch returns a copy of the
   Account, so a change to it stays with the caller. *)

\* the caller still holds the map FetchAll returned to it
HoldsMap(p) ==
    /\ last.p = p
    /\ last.op \in {"FetchAll", "CallerWrite", "CallerDelete"}
    /\ ~st[p].accounts.nil

\* delete(m, domain)
DeleteMap(accts, domain) ==
    MakeMap([d \in DOMAIN accts.m \ {domain} |-> accts.m[d]])

\* m[domain] = acct on the returned map m
CallerWrite(p, domain, acct) ==
    /\ HoldsMap(p)
    /\ st' = [st EXCEPT ![p].accounts = PutMap(st[p].accounts, domain, acct)]
    /\ last' = Call("CallerWrite", p, domain, None, ErrNil, {})
    /\ UNCHANGED <<file, lastPut, loaded, saved, file0, dirty, cvars>>

\* delete(m, domain) on the returned map m
CallerDelete(p, domain) ==
    /\ HoldsMap(p)
    /\ st' = [st EXCEPT ![p].accounts = DeleteMap(st[p].accounts, domain)]
    /\ last' = Call("CallerDelete", p, domain, None, ErrNil, {})
    /\ UNCHANGED <<file, lastPut, loaded, saved, file0, dirty, cvars>>

\* acct.Password = "changed" on the Account Fetch returned
CallerEdit(p) ==
    /\ last.p = p /\ last.op = "Fetch" /\ last.err = ErrNil
    /\ last' = Call("CallerEdit", p, last.d, [last.ret EXCEPT !.Password = "changed"], ErrNil, {})
    /\ UNCHANGED <<file, st, lastPut, loaded, saved, file0, dirty, cvars>>

LibCallerWrite == \E d \in Domains, a \in PutAccounts : CallerWrite(Lib, d, a) /\ UNCHANGED <<pc, run>>

LibCallerDelete == \E d \in Domains : CallerDelete(Lib, d) /\ UNCHANGED <<pc, run>>

LibCallerEdit == CallerEdit(Lib) /\ UNCHANGED <<pc, run>>

NextAlias ==
    \/ LibNewFile
    \/ LibPut
    \/ LibFetch
    \/ LibFetchAll
    \/ LibSaveOk
    \/ LibSaveFailOpen
    \/ LibSaveFailWrite
    \/ LibCallerWrite
    \/ LibCallerDelete
    \/ LibCallerEdit

InitAlias == Init /\ file \in {Absent, JObj(<< Member("a.example", MarshalAccount(AcctA)) >>)}

SpecAlias == InitAlias /\ [][NextAlias]_vars

\* C14 as stated: the stored records change only through Put (and construction);
\* what a caller does to a fetched record or to the map FetchAll returned leaves
\* the table that Fetch, FetchAll and Save see as it was.
C14_Original == [][last'.op \notin {"NewFile", "Put"} => st' = st]_vars

-----------------------------------------------------------------------------
(* Claims about Save and about processes sharing the path *)

\* C15 as stated: a Save, failed ones included, leaves at the path either the
\* complete content from before the Save or the complete serialisation of the
\* saved table.
C15_Original ==
    [][last'.op = "Save" =>
          \/ file' = file
          \/ file' = MarshalAccounts(st[last'.p].accounts)]_vars

\* C16: Saves of processes sharing the path are not merged.  After a successful
\* Save the file is the serialisation of the saving process's table, whatever
\* the other process saved before: a domain the other process Put that is not
\* in the saver's table is not in the file.
C16_LastSaveWins ==
    (last.op = "Save" /\ last.err = ErrNil) =>
        /\ file = MarshalAccounts(st[last.p].accounts)
        /\ Keys(file) = DOMAIN Table(last.p)
        /\ \A q \in Procs \ {last.p}, d \in Domains :
              (lastPut[q][d] # None /\ d \notin DOMAIN Table(last.p)) => d \notin Keys(file)

\* Both processes constructed their storage on the absent file; p1 Put and
\* saved a.example, then p2 saved its table with b.example alone: a.example,
\* which the file held before p2's Save, is lost.
C16_Witness ==
    /\ last.op = "Save" /\ last.err = ErrNil /\ last.p = Cmd
    /\ file0 = Absent
    /\ loaded[Lib] = <<>> /\ loaded[Cmd] = <<>>
    /\ Made(Lib) /\ lastPut[Lib]["a.example"] # None
    /\ "a.example" \in last.before
    /\ Keys(file) = {"b.example"}
    /\ "a.example" \in DOMAIN Table(Lib)

-----------------------------------------------------------------------------
(* The usage example of the README, run again and again by process p1 on one
   path: NewClient; NewFile; Fetch(domain); on ErrDomainNotFound RegisterAccount,
   Put and Save; then UpdateTXTRecord.  Any error ends the run (log.Fatal); a
   panic ends it too.  run.cred is the account of the run that last completed
   Register, Put and Save. *)

WfDomain == "a.example"

At(where) == [run EXCEPT !.at = where]

\* account, err := st.Fetch(ctx, domain); if err != nil { ... }
AfterFetch(err) == IF err = ErrNil THEN "found" ELSE "missing"

WfNewClient ==
    /\ run.at = "start"
    /\ \E u \in BaseURLs : Parses(u) /\ NewClient(u)
    /\ run' = At("client")

WfNewFile ==
    /\ run.at = "client"
    /\ NewFile(Lib)
    /\ run' = At("opened")
    /\ UNCHANGED pc

WfFetch ==
    /\ run.at = "opened"
    /\ Fetch(Lib, WfDomain)
    /\ run' = At(AfterFetch(last'.err))
    /\ UNCHANGED pc

WfRegister ==
    /\ run.at = "missing"
    /\ \E l \in AllowFromLists, c \in Contexts :
          /\ RegisterAccount(l, c)
          /\ run' = At(IF c = BadContext THEN "exit" ELSE "registering")

WfRegisterReturn ==
    /\ run.at = "registering"
    /\ \E o \in Outcomes : RegisterAccountReturn(o)
    /\ run' = At(IF result'.err = NoErr THEN "registered" ELSE "exit")

WfPut ==
    /\ run.at = "registered"
    /\ Put(Lib, WfDomain, result.acct)
    /\ run' = At(IF last'.err = ErrNil THEN "put" ELSE "exit")
    /\ UNCHANGED pc

WfSave ==
    /\ run.at = "put"
    /\ Save(Lib)
    /\ run' = IF last'.err = ErrNil THEN [at |-> "saved", cred |-> result.acct] ELSE At("exit")
    /\ UNCHANGED pc

\* the account the run passes to UpdateTXTRecord: the fetched one, or newAcct
WfAccount == IF run.at = "found" THEN last.ret ELSE result.acct

WfUpdate ==
    /\ run.at \in {"found", "saved"}
    /\ \E v \in TxtValues, c \in Contexts :
          /\ UpdateTXTRecord(WfAccount, v, c)
          /\ run' = At(IF c = BadContext THEN "exit" ELSE "updating")

WfUpdateReturn ==
    /\ run.at = "updating"
    /\ \E o \in Outcomes : UpdateTXTRecordReturn(o)
    /\ run' = At("exit")

\* The process ends and the next run starts: nothing of the process is left, the
\* file stays.
WfExit ==
    /\ run.at = "exit"
    /\ run' = At("start")
    /\ st' = [st EXCEPT ![Lib] = NotMade]
    /\ lastPut' = [lastPut EXCEPT ![Lib] = NoPuts]
    /\ loaded' = [loaded EXCEPT ![Lib] = EmptyMap.m]
    /\ last' = Call("", "", "", None, ErrNil, {})
    /\ client' = None /\ sent' = None /\ call' = None /\ result' = None
    /\ UNCHANGED <<file, pc, saved, file0, dirty>>

NextWorkflow ==
    \/ WfNewClient
    \/ WfNewFile
    \/ WfFetch
    \/ WfRegister
    \/ WfRegisterReturn
    \/ WfPut
    \/ WfSave
    \/ WfUpdate
    \/ WfUpdateReturn
    \/ WfExit

SpecWorkflow == Init /\ [][NextWorkflow]_vars

\* C17: once a run has completed Register, Put and Save, every run (that one
\* from its Save on, and every later one) finds the account with Fetch, is never
\* at a point where it registers, Puts or Saves, has no call but updates in
\* flight, and calls UpdateTXTRecord with the account that run registered.
C17_NoReRegistration ==
    run.cred # None =>
        /\ run.at \notin {"missing", "registering", "registered", "put"}
        /\ last.op = "Fetch" => (last.d = WfDomain /\ last.err = ErrNil /\ last.ret = run.cred)
        /\ call # None => (call.op = "UpdateTXTRecord" /\ call.account = run.cred)
        /\ (run.at \in {"found", "saved"}) => WfAccount = run.cred

\* A later run fetched the account an earlier run registered and saved, and is
\* updating the TXT record with it.
C17_Witness ==
    /\ run.cred # None
    /\ run.at = "updating"
    /\ last.op = "Fetch" /\ last.ret = run.cred
    /\ call.account = run.cred
    /\ run.cred.Username = "userx"
    /\ run.cred.ServerURL = "https://other.example"
    /\ file0 = Absent

-----------------------------------------------------------------------------
(* Claims about loaded records and Put *)

\* the record the storage of p must hold for d: the latest Put, else the loaded one
Expected(p, d) == IF lastPut[p][d] # None THEN lastPut[p][d] ELSE loaded[p][d]

Touched(p) == DOMAIN loaded[p] \cup {d \in Domains : lastPut[p][d] # None}

C18_Table ==
    /\ \A p \in Procs :
          (Made(p) /\ ~st[p].accounts.nil) =>
              /\ DOMAIN Table(p) = Touched(p)
              /\ \A d \in Touched(p) : Table(p)[d] = Expected(p, d)
    /\ (last.op = "Save" /\ last.err = ErrNil /\ ~st[last.p].accounts.nil) =>
          /\ file.t = "object"
          /\ Keys(file) = Touched(last.p)
          /\ \A d \in Touched(last.p) :
                Lookup(file.members, d) = MarshalAccount(Expected(last.p, d))

C18_Frame ==
    (last'.op = "Put" /\ last'.err = ErrNil) =>
        LET old == st[last'.p].accounts.m
            new == st'[last'.p].accounts.m
        IN \E d \in Domains :
              /\ d \in DOMAIN new
              /\ DOMAIN new = DOMAIN old \cup {d}
              /\ \A e \in DOMAIN old \ {d} : new[e] = old[e]

\* C18: the table of a storage holds exactly the domains NewFile loaded and the
\* domains Put since, each loaded domain that was not Put with its loaded record
\* and each Put domain with its latest Put record; a successful Save writes
\* exactly these to the file; a Put changes the entry of its domain only.
C18_LoadedRecordsSurvive == [](C18_Table) /\ [][C18_Frame]_vars

\* A Save after a Put on a.example by a storage that had loaded b.example: the
\* file holds the loaded record of b.example beside the new one.
C18_Witness ==
    /\ last.op = "Save" /\ last.err = ErrNil
    /\ "b.example" \in DOMAIN loaded[last.p]
    /\ "a.example" \notin DOMAIN loaded[last.p]
    /\ lastPut[last.p]["b.example"] = None
    /\ lastPut[last.p]["a.example"] = AcctB
    /\ Lookup(file.members, "b.example") = MarshalAccount(loaded[last.p]["b.example"])
    /\ Lookup(file.members, "a.example") = MarshalAccount(AcctB)
    /\ loaded[last.p]["b.example"].ServerURL = ""

====
